---- MODULE Spec2Model ----
(***************************************************************************)
(* Path-based authentication of sa-token-rust: the Ant-style matcher, the  *)
(* include/exclude policy, process_auth and the middleware that publishes  *)
(* the request's SaTokenContext around the wrapped handler.                *)
(*                                                                         *)
(* A Rust &str is a sequence of one-character strings; an Option<T> is a   *)
(* sequence of length at most one: None is <<>>, Some(x) is <<x>>.         *)
(***************************************************************************)
EXTENDS Integers, Sequences, FiniteSets, TLC

\* ------------------------------------------------------------------ bounds

\* Longest request path enumerated exhaustively.
MaxPathLen == 5

\* Longest pattern enumerated exhaustively.
MaxPatLen == 5

\* Longest include / exclude list enumerated.
MaxPatterns == 2

\* Worker threads that run request tasks.
NumWorkers == 2

\* ------------------------------------------------------------------ strings

None == <<>>

Some(x) == <<x>>

IsSome(o) == o # <<>>

Unwrap(o) == o[1]

Alphabet == {"/", "*", "a"}

SeqsUpTo(S, n) == UNION {[1..k -> S] : k \in 0..n}

\* str::starts_with
StartsWith(s, p) == Len(p) <= Len(s) /\ SubSeq(s, 1, Len(p)) = p

\* str::ends_with
EndsWith(s, p) == Len(p) <= Len(s) /\ SubSeq(s, Len(s) - Len(p) + 1, Len(s)) = p

\* str::contains(char)
Contains(s, c) == \E i \in 1..Len(s) : s[i] = c

Range(s) == {s[i] : i \in 1..Len(s)}

\* String literals of the documentation and of the deployment modelled.
StarStar == <<"/", "*", "*">>
SlashStar == <<"/", "*">>
Str_api == <<"/", "a", "p", "i">>
Str_apix == <<"/", "a", "p", "i", "x">>
Str_api_slash == <<"/", "a", "p", "i", "/">>
Str_api_user == <<"/", "a", "p", "i", "/", "u", "s", "e", "r">>
Str_api_login == <<"/", "a", "p", "i", "/", "l", "o", "g", "i", "n">>
Str_api_user_profile == Str_api_user \o <<"/", "p", "r", "o", "f", "i", "l", "e">>
Str_pub == <<"/", "p", "u", "b">>
Pat_all == StarStar
Pat_api_star == Str_api \o SlashStar
Pat_api_starstar == Str_api \o StarStar

\* ------------------------------------------------------------------ router.rs

\* match_path whose universal pattern asks for a leading '/'.
match_path_universal_rooted(path, pattern) ==
    IF pattern = StarStar THEN StartsWith(path, <<"/">>)
    ELSE IF EndsWith(pattern, StarStar)
    THEN LET prefix == SubSeq(pattern, 1, Len(pattern) - 3)
         IN  StartsWith(path, prefix)
    ELSE IF StartsWith(pattern, <<"*">>)
    THEN LET suffix == SubSeq(pattern, 2, Len(pattern))
         IN  EndsWith(path, suffix)
    ELSE IF EndsWith(pattern, SlashStar)
    THEN LET prefix == SubSeq(pattern, 1, Len(pattern) - 2)
         IN  IF StartsWith(path, prefix)
             THEN LET suffix == SubSeq(path, Len(prefix) + 1, Len(path))
                  IN  ~Contains(suffix, "/") \/ suffix = <<"/">>
             ELSE FALSE
    ELSE path = pattern

\* match_path that tries the suffix rule before the prefix rule.
match_path_suffix_first(path, pattern) ==
    IF pattern = StarStar THEN TRUE
    ELSE IF StartsWith(pattern, <<"*">>)
    THEN LET suffix == SubSeq(pattern, 2, Len(pattern))
         IN  EndsWith(path, suffix)
    ELSE IF EndsWith(pattern, StarStar)
    THEN LET prefix == SubSeq(pattern, 1, Len(pattern) - 3)
         IN  StartsWith(path, prefix)
    ELSE IF EndsWith(pattern, SlashStar)
    THEN LET prefix == SubSeq(pattern, 1, Len(pattern) - 2)
         IN  IF StartsWith(path, prefix)
             THEN LET suffix == SubSeq(path, Len(prefix) + 1, Len(path))
                  IN  ~Contains(suffix, "/") \/ suffix = <<"/">>
             ELSE FALSE
    ELSE path = pattern

match_path(path, pattern) ==
    IF pattern = StarStar THEN TRUE
    ELSE IF EndsWith(pattern, StarStar)
    THEN LET prefix == SubSeq(pattern, 1, Len(pattern) - 3)
         IN  StartsWith(path, prefix)
    ELSE IF StartsWith(pattern, <<"*">>)
    THEN LET suffix == SubSeq(pattern, 2, Len(pattern))
         IN  EndsWith(path, suffix)
    ELSE IF EndsWith(pattern, SlashStar)
    THEN LET prefix == SubSeq(pattern, 1, Len(pattern) - 2)
         IN  IF StartsWith(path, prefix)
             THEN LET suffix == SubSeq(path, Len(prefix) + 1, Len(path))
                  IN  ~Contains(suffix, "/") \/ suffix = <<"/">>
             ELSE FALSE
    ELSE path = pattern

match_any(path, patterns) == \E i \in 1..Len(patterns) : match_path(path, patterns[i])

\* need_auth that ignores the exclude list.
need_auth_no_exclude(path, include, exclude) ==
    match_any(path, include)

\* need_auth that takes an empty include list for "every path".
need_auth_empty_include_all(path, include, exclude) ==
    (include = <<>> \/ match_any(path, include)) /\ ~match_any(path, exclude)

need_auth(path, include, exclude) ==
    match_any(path, include) /\ ~match_any(path, exclude)

\* PathAuthConfig: include, exclude, and the optional login-id validator,
\* a predicate given by the set of login ids it accepts (None: no validator).
PathAuthConfig_new == [include |-> <<>>, exclude |-> <<>>, validator |-> None]

PathAuthConfig_check(config, path) == need_auth(path, config.include, config.exclude)

\* validate_login_id that refuses every id when no validator is configured.
validate_login_id_default_deny(config, login_id) ==
    IF IsSome(config.validator) THEN login_id \in Unwrap(config.validator) ELSE FALSE

validate_login_id(config, login_id) ==
    IF IsSome(config.validator) THEN login_id \in Unwrap(config.validator) ELSE TRUE

\* The token manager, an external collaborator: the tokens it reports valid
\* and the tokens whose TokenInfo it can resolve; a token's TokenInfo names
\* the login id that owns it.
Tokens == {"tA", "tB"}

LoginIds == {"alice", "bob"}

Owner(t) == IF t = "tA" THEN "alice" ELSE "bob"

Managers == [valid : SUBSET Tokens, resolvable : SUBSET Tokens]

\* The managers that differ in what they answer about one credential.
ManagersFor(tok) == [valid : SUBSET Range(tok), resolvable : SUBSET Range(tok)]

manager_is_valid(manager, t) == t \in manager.valid

manager_get_token_info(manager, t) ==
    IF t \in manager.resolvable THEN Some([login_id |-> Owner(t)]) ELSE None

\* AuthResult::should_reject that rejects only a token found invalid.
should_reject_present_only(result) ==
    result.need_auth /\ ~result.is_valid /\ IsSome(result.token)

\* AuthResult::should_reject that looks at is_valid alone.
should_reject_invalid_only(result) ==
    result.need_auth /\ ~result.is_valid

should_reject(result) ==
    result.need_auth /\ (~result.is_valid \/ result.token = None)

login_id(result) ==
    IF IsSome(result.token_info) THEN Some(Unwrap(result.token_info).login_id) ELSE None

\* process_auth that evaluates the login-id predicate before it looks at
\* need_auth (same AuthResult, one more call).
process_auth_eager_predicate(path, token_str, config, manager) ==
    LET need  == PathAuthConfig_check(config, path)
        token == token_str
        valid == IF IsSome(token) THEN manager_is_valid(manager, Unwrap(token)) ELSE FALSE
        info  == IF IsSome(token) /\ valid
                 THEN manager_get_token_info(manager, Unwrap(token))
                 ELSE None
        pred  == IsSome(info)
        final == valid /\ (IF need
                           THEN (IF IsSome(info)
                                 THEN validate_login_id(config, Unwrap(info).login_id)
                                 ELSE FALSE)
                           ELSE TRUE)
    IN  [result |-> [need_auth |-> need, token |-> token, token_info |-> info,
                     is_valid |-> final],
         calls  |-> (IF IsSome(token) THEN <<"is_valid">> ELSE <<>>)
                    \o (IF IsSome(token) /\ valid THEN <<"get_token_info">> ELSE <<>>)
                    \o (IF pred THEN <<"validate_login_id">> ELSE <<>>)]

\* process_auth that applies the login-id predicate whatever need_auth is.
process_auth_always_predicate(path, token_str, config, manager) ==
    LET need  == PathAuthConfig_check(config, path)
        token == token_str
        valid == IF IsSome(token) THEN manager_is_valid(manager, Unwrap(token)) ELSE FALSE
        info  == IF IsSome(token) /\ valid
                 THEN manager_get_token_info(manager, Unwrap(token))
                 ELSE None
        pred  == valid /\ IsSome(info)
        final == valid /\ (IF IsSome(info)
                           THEN validate_login_id(config, Unwrap(info).login_id)
                           ELSE ~need)
    IN  [result |-> [need_auth |-> need, token |-> token, token_info |-> info,
                     is_valid |-> final],
         calls  |-> (IF IsSome(token) THEN <<"is_valid">> ELSE <<>>)
                    \o (IF IsSome(token) /\ valid THEN <<"get_token_info">> ELSE <<>>)
                    \o (IF pred THEN <<"validate_login_id">> ELSE <<>>)]

\* process_auth that takes the validator's answer as the final validity.
process_auth_raw_validity(path, token_str, config, manager) ==
    LET need  == PathAuthConfig_check(config, path)
        token == token_str
        valid == IF IsSome(token) THEN manager_is_valid(manager, Unwrap(token)) ELSE FALSE
        info  == IF IsSome(token) /\ valid
                 THEN manager_get_token_info(manager, Unwrap(token))
                 ELSE None
    IN  [result |-> [need_auth |-> need, token |-> token, token_info |-> info,
                     is_valid |-> valid],
         calls  |-> (IF IsSome(token) THEN <<"is_valid">> ELSE <<>>)
                    \o (IF IsSome(token) /\ valid THEN <<"get_token_info">> ELSE <<>>)]

\* process_auth that lets a valid token pass when its identity does not resolve.
process_auth_unresolved_valid(path, token_str, config, manager) ==
    LET need  == PathAuthConfig_check(config, path)
        token == token_str
        valid == IF IsSome(token) THEN manager_is_valid(manager, Unwrap(token)) ELSE FALSE
        info  == IF IsSome(token) /\ valid
                 THEN manager_get_token_info(manager, Unwrap(token))
                 ELSE None
        pred  == valid /\ need /\ IsSome(info)
        final == valid /\ (IF need
                           THEN (IF IsSome(info)
                                 THEN validate_login_id(config, Unwrap(info).login_id)
                                 ELSE TRUE)
                           ELSE TRUE)
    IN  [result |-> [need_auth |-> need, token |-> token, token_info |-> info,
                     is_valid |-> final],
         calls  |-> (IF IsSome(token) THEN <<"is_valid">> ELSE <<>>)
                    \o (IF IsSome(token) /\ valid THEN <<"get_token_info">> ELSE <<>>)
                    \o (IF pred THEN <<"validate_login_id">> ELSE <<>>)]

\* process_auth that resolves the identity of every token, valid or not.
process_auth_resolve_unchecked(path, token_str, config, manager) ==
    LET need  == PathAuthConfig_check(config, path)
        token == token_str
        valid == IF IsSome(token) THEN manager_is_valid(manager, Unwrap(token)) ELSE FALSE
        info  == IF IsSome(token)
                 THEN manager_get_token_info(manager, Unwrap(token))
                 ELSE None
        pred  == valid /\ need /\ IsSome(info)
        final == valid /\ (IF need
                           THEN (IF IsSome(info)
                                 THEN validate_login_id(config, Unwrap(info).login_id)
                                 ELSE FALSE)
                           ELSE TRUE)
    IN  [result |-> [need_auth |-> need, token |-> token, token_info |-> info,
                     is_valid |-> final],
         calls  |-> (IF IsSome(token) THEN <<"is_valid">> ELSE <<>>)
                    \o (IF IsSome(token) THEN <<"get_token_info">> ELSE <<>>)
                    \o (IF pred THEN <<"validate_login_id">> ELSE <<>>)]

\* process_auth that asks for a resolved identity on every path.
process_auth_need_info(path, token_str, config, manager) ==
    LET need  == PathAuthConfig_check(config, path)
        token == token_str
        valid == IF IsSome(token) THEN manager_is_valid(manager, Unwrap(token)) ELSE FALSE
        info  == IF IsSome(token) /\ valid
                 THEN manager_get_token_info(manager, Unwrap(token))
                 ELSE None
        pred  == valid /\ need /\ IsSome(info)
        final == valid /\ IsSome(info)
                       /\ (IF need
                           THEN validate_login_id(config, Unwrap(info).login_id)
                           ELSE TRUE)
    IN  [result |-> [need_auth |-> need, token |-> token, token_info |-> info,
                     is_valid |-> final],
         calls  |-> (IF IsSome(token) THEN <<"is_valid">> ELSE <<>>)
                    \o (IF IsSome(token) /\ valid THEN <<"get_token_info">> ELSE <<>>)
                    \o (IF pred THEN <<"validate_login_id">> ELSE <<>>)]

\* process_auth that takes an absent token for a valid one.
process_auth_absent_valid(path, token_str, config, manager) ==
    LET need  == PathAuthConfig_check(config, path)
        token == token_str
        valid == IF IsSome(token) THEN manager_is_valid(manager, Unwrap(token)) ELSE TRUE
        info  == IF IsSome(token) /\ valid
                 THEN manager_get_token_info(manager, Unwrap(token))
                 ELSE None
        pred  == valid /\ need /\ IsSome(info)
        final == valid /\ (IF need
                           THEN (IF IsSome(info)
                                 THEN validate_login_id(config, Unwrap(info).login_id)
                                 ELSE FALSE)
                           ELSE TRUE)
    IN  [result |-> [need_auth |-> need, token |-> token, token_info |-> info,
                     is_valid |-> final],
         calls  |-> (IF IsSome(token) THEN <<"is_valid">> ELSE <<>>)
                    \o (IF IsSome(token) /\ valid THEN <<"get_token_info">> ELSE <<>>)
                    \o (IF pred THEN <<"validate_login_id">> ELSE <<>>)]

\* process_auth: the AuthResult it returns and, in order, the calls it makes
\* to the manager and to the configured login-id predicate.
process_auth(path, token_str, config, manager) ==
    LET need  == PathAuthConfig_check(config, path)
        token == token_str
        valid == IF IsSome(token) THEN manager_is_valid(manager, Unwrap(token)) ELSE FALSE
        info  == IF IsSome(token) /\ valid
                 THEN manager_get_token_info(manager, Unwrap(token))
                 ELSE None
        pred  == valid /\ need /\ IsSome(info)
        final == valid /\ (IF need
                           THEN (IF IsSome(info)
                                 THEN validate_login_id(config, Unwrap(info).login_id)
                                 ELSE FALSE)
                           ELSE TRUE)
    IN  [result |-> [need_auth |-> need, token |-> token, token_info |-> info,
                     is_valid |-> final],
         calls  |-> (IF IsSome(token) THEN <<"is_valid">> ELSE <<>>)
                    \o (IF IsSome(token) /\ valid THEN <<"get_token_info">> ELSE <<>>)
                    \o (IF pred THEN <<"validate_login_id">> ELSE <<>>)]

\* SaTokenContext::new(): a context that carries no identity.
SaTokenContext_new == [token |-> None, token_info |-> None, login_id |-> None]

\* create_context that fills the context from the token alone.
create_context_token_only(result) ==
    IF IsSome(result.token)
    THEN [token      |-> result.token,
          token_info |-> result.token_info,
          login_id   |-> login_id(result)]
    ELSE SaTokenContext_new

create_context(result) ==
    IF IsSome(result.token) /\ IsSome(result.token_info)
    THEN [token      |-> result.token,
          token_info |-> result.token_info,
          login_id   |-> Some(Unwrap(result.token_info).login_id)]
    ELSE SaTokenContext_new

\* ------------------------------------------------------------------ context.rs

\* The ambient slot behind SaTokenContext::set_current / current / clear:
\* one Option<SaTokenContext> per worker thread, reached by whatever task
\* the worker is running.
set_current(slots, w, c) == [slots EXCEPT ![w] = Some(c)]

current(slots, w) == slots[w]

clear(slots, w) == [slots EXCEPT ![w] = None]

\* ------------------------------------------------------------------ credential extraction

Min(S) == CHOOSE x \in S : \A y \in S : x <= y

Max(S) == CHOOSE x \in S : \A y \in S : y <= x

\* Position of the first c in s, 0 when there is none.
IndexOf(s, c) == IF Contains(s, c) THEN Min({i \in 1..Len(s) : s[i] = c}) ELSE 0

\* str::trim
trim(s) ==
    LET kept == {i \in 1..Len(s) : s[i] # " "}
    IN  IF kept = {} THEN <<>> ELSE SubSeq(s, Min(kept), Max(kept))

\* str::split(c), complete
RECURSIVE split(_, _)
split(s, c) ==
    LET i == IndexOf(s, c)
    IN  IF i = 0 THEN <<s>>
        ELSE <<SubSeq(s, 1, i - 1)>> \o split(SubSeq(s, i + 1, Len(s)), c)

\* str::splitn(2, c)
splitn2(s, c) ==
    LET i == IndexOf(s, c)
    IN  IF i = 0 THEN <<s>>
        ELSE <<SubSeq(s, 1, i - 1), SubSeq(s, i + 1, Len(s))>>

\* urlencoding::decode on the escapes the requests use: %20 and %3D. Other
\* characters are copied.
RECURSIVE url_decode(_)
url_decode(s) ==
    IF s = <<>> THEN <<>>
    ELSE IF s[1] = "%" /\ Len(s) >= 3 /\ SubSeq(s, 2, 3) = <<"2", "0">>
    THEN <<" ">> \o url_decode(SubSeq(s, 4, Len(s)))
    ELSE IF s[1] = "%" /\ Len(s) >= 3 /\ SubSeq(s, 2, 3) = <<"3", "D">>
    THEN <<"=">> \o url_decode(SubSeq(s, 4, Len(s)))
    ELSE <<s[1]>> \o url_decode(SubSeq(s, 2, Len(s)))

BEARER_PREFIX == <<"B", "e", "a", "r", "e", "r", " ">>

Name_satoken == <<"s", "a", "t", "o", "k", "e", "n">>

Name_Authorization == <<"A", "u", "t", "h", "o", "r", "i", "z", "a", "t", "i", "o", "n">>

Name_authorization == <<"a", "u", "t", "h", "o", "r", "i", "z", "a", "t", "i", "o", "n">>

\* Header names are looked up without regard to case.
HeaderKey(name) == IF name = Name_Authorization THEN Name_authorization ELSE name

\* A request: its headers by lower-case name, its cookies as name / value
\* pairs, and its query string, absent when the URI has none.
get_header(request, name) == request.headers[HeaderKey(name)]

get_cookie(request, name) ==
    LET hits == {i \in 1..Len(request.cookies) : request.cookies[i].name = name}
    IN  IF hits = {} THEN None ELSE Some(request.cookies[Min(hits)].value)

\* sa_token_adapter::utils::extract_bearer_token: one leading "Bearer "
\* removed.
utils_extract_bearer_token(value) ==
    IF StartsWith(value, BEARER_PREFIX)
    THEN Some(SubSeq(value, Len(BEARER_PREFIX) + 1, Len(value)))
    ELSE Some(value)

\* The first pair "name=value" of a query string, value percent-decoded.
RECURSIVE first_param(_, _)
first_param(pairs, name) ==
    IF pairs = <<>> THEN None
    ELSE LET parts == splitn2(pairs[1], "=")
         IN  IF Len(parts) = 2 /\ parts[1] = name
             THEN Some(url_decode(parts[2]))
             ELSE first_param(Tail(pairs), name)

\* sa_token_adapter::utils::parse_query_string followed by get(name).
parse_query_string_get(query, name) == first_param(split(query, "&"), name)

\* What an extraction returns: the token, and the tier it was found in.
Found(tier, token) == [token |-> Some(token), tier |-> tier]

NotFound == [token |-> None, tier |-> "none"]

\* axum: extract_bearer_token
axum_extract_bearer_token(header_value) ==
    IF StartsWith(header_value, BEARER_PREFIX)
    THEN trim(SubSeq(header_value, Len(BEARER_PREFIX) + 1, Len(header_value)))
    ELSE trim(header_value)

\* axum: parse_query_param
axum_parse_query_param(query, param_name) == first_param(split(query, "&"), param_name)

\* axum extraction that looks at the cookie before the Authorization header.
axum_extract_cookie_before_authorization(request, token_name) ==
    IF IsSome(get_header(request, token_name))
    THEN Found("header", axum_extract_bearer_token(Unwrap(get_header(request, token_name))))
    ELSE IF IsSome(get_cookie(request, token_name))
    THEN Found("cookie", Unwrap(get_cookie(request, token_name)))
    ELSE IF token_name # Name_Authorization
            /\ IsSome(get_header(request, Name_Authorization))
    THEN Found("authorization",
               axum_extract_bearer_token(Unwrap(get_header(request, Name_Authorization))))
    ELSE IF IsSome(request.query)
            /\ IsSome(axum_parse_query_param(Unwrap(request.query), token_name))
    THEN Found("query", Unwrap(axum_parse_query_param(Unwrap(request.query), token_name)))
    ELSE NotFound

\* axum: extract_token_from_request
axum_extract_token_from_request(request, token_name) ==
    IF IsSome(get_header(request, token_name))
    THEN Found("header", axum_extract_bearer_token(Unwrap(get_header(request, token_name))))
    ELSE IF token_name # Name_Authorization
            /\ IsSome(get_header(request, Name_Authorization))
    THEN Found("authorization",
               axum_extract_bearer_token(Unwrap(get_header(request, Name_Authorization))))
    ELSE IF IsSome(get_cookie(request, token_name))
    THEN Found("cookie", Unwrap(get_cookie(request, token_name)))
    ELSE IF IsSome(request.query)
            /\ IsSome(axum_parse_query_param(Unwrap(request.query), token_name))
    THEN Found("query", Unwrap(axum_parse_query_param(Unwrap(request.query), token_name)))
    ELSE NotFound

\* actix-web: extract_bearer_token
actix_extract_bearer_token(token) ==
    IF StartsWith(token, BEARER_PREFIX) THEN SubSeq(token, 8, Len(token)) ELSE token

\* actix-web: the find_map over the pairs of the query string. A pair is cut
\* at every '='; the first two pieces are the key and the value.
RECURSIVE actix_find_query(_, _)
actix_find_query(pairs, token_name) ==
    IF pairs = <<>> THEN None
    ELSE LET parts == split(pairs[1], "=")
         IN  IF Len(parts) >= 2 /\ parts[1] = token_name
             THEN Some(url_decode(parts[2]))
             ELSE actix_find_query(Tail(pairs), token_name)

\* ServiceRequest::query_string: empty when the URI has no query.
query_string(request) == IF IsSome(request.query) THEN Unwrap(request.query) ELSE <<>>

\* actix-web: extract_token_from_request
actix_extract_token_from_request(request, token_name) ==
    IF IsSome(get_header(request, token_name))
    THEN Found("header", actix_extract_bearer_token(Unwrap(get_header(request, token_name))))
    ELSE IF token_name # Name_Authorization
            /\ IsSome(get_header(request, Name_Authorization))
    THEN Found("authorization",
               actix_extract_bearer_token(Unwrap(get_header(request, Name_Authorization))))
    ELSE IF IsSome(get_cookie(request, token_name))
    THEN Found("cookie", Unwrap(get_cookie(request, token_name)))
    ELSE IF IsSome(actix_find_query(split(query_string(request), "&"), token_name))
    THEN Found("query", Unwrap(actix_find_query(split(query_string(request), "&"), token_name)))
    ELSE NotFound

\* salvo: extract_token_from_request. An empty value is passed over in every
\* tier, and the Authorization header is looked at whatever token_name is.
salvo_extract_token_from_request(request, token_name) ==
    LET header == get_header(request, token_name)
        auth   == get_header(request, Name_authorization)
        cookie == get_cookie(request, token_name)
        param  == IF IsSome(request.query)
                  THEN parse_query_string_get(Unwrap(request.query), token_name)
                  ELSE None
    IN  IF IsSome(header) /\ Unwrap(header) # <<>>
           /\ IsSome(utils_extract_bearer_token(Unwrap(header)))
        THEN Found("header", Unwrap(utils_extract_bearer_token(Unwrap(header))))
        ELSE IF IsSome(auth) /\ Unwrap(auth) # <<>>
                /\ IsSome(utils_extract_bearer_token(Unwrap(auth)))
        THEN Found("authorization", Unwrap(utils_extract_bearer_token(Unwrap(auth))))
        ELSE IF IsSome(cookie) /\ Unwrap(cookie) # <<>>
        THEN Found("cookie", Unwrap(cookie))
        ELSE IF IsSome(param) /\ Unwrap(param) # <<>>
        THEN Found("query", Unwrap(param))
        ELSE NotFound

\* tide: extract_token_from_request, on the first value of each header.
tide_extract_token_from_request(request, token_name) ==
    LET header == get_header(request, token_name)
        auth   == get_header(request, Name_authorization)
        cookie == get_cookie(request, token_name)
        param  == IF IsSome(request.query)
                  THEN parse_query_string_get(Unwrap(request.query), token_name)
                  ELSE None
    IN  IF IsSome(header) /\ Unwrap(header) # <<>>
           /\ IsSome(utils_extract_bearer_token(Unwrap(header)))
        THEN Found("header", Unwrap(utils_extract_bearer_token(Unwrap(header))))
        ELSE IF IsSome(auth) /\ Unwrap(auth) # <<>>
                /\ IsSome(utils_extract_bearer_token(Unwrap(auth)))
        THEN Found("authorization", Unwrap(utils_extract_bearer_token(Unwrap(auth))))
        ELSE IF IsSome(cookie) /\ Unwrap(cookie) # <<>>
        THEN Found("cookie", Unwrap(cookie))
        ELSE IF IsSome(param) /\ Unwrap(param) # <<>>
        THEN Found("query", Unwrap(param))
        ELSE NotFound

\* poem: extract_token_from_request. No tier passes over an empty value.
poem_extract_token_from_request(request, token_name) ==
    LET header == get_header(request, token_name)
        auth   == get_header(request, Name_authorization)
        cookie == get_cookie(request, token_name)
        param  == IF IsSome(request.query)
                  THEN parse_query_string_get(Unwrap(request.query), token_name)
                  ELSE None
    IN  IF IsSome(header) /\ IsSome(utils_extract_bearer_token(Unwrap(header)))
        THEN Found("header", Unwrap(utils_extract_bearer_token(Unwrap(header))))
        ELSE IF IsSome(auth) /\ IsSome(utils_extract_bearer_token(Unwrap(auth)))
        THEN Found("authorization", Unwrap(utils_extract_bearer_token(Unwrap(auth))))
        ELSE IF IsSome(cookie)
        THEN Found("cookie", Unwrap(cookie))
        ELSE IF IsSome(param)
        THEN Found("query", Unwrap(param))
        ELSE NotFound

\* extract_token_from_request of integration f.
extract_token_from_request(f, request, token_name) ==
    CASE f = "axum"  -> axum_extract_token_from_request(request, token_name)
      [] f = "actix" -> actix_extract_token_from_request(request, token_name)
      [] f = "salvo" -> salvo_extract_token_from_request(request, token_name)
      [] f = "tide"  -> tide_extract_token_from_request(request, token_name)
      [] f = "poem"  -> poem_extract_token_from_request(request, token_name)

\* ------------------------------------------------------------------ state

VARIABLES
    \* one call of match_path or of PathAuthConfig::check
    mOp,        \* "match", "check", or "idle"
    mPath,      \* the path argument
    mPattern,   \* the pattern argument of match_path
    mConfig,    \* the PathAuthConfig check is called on
    mResult,    \* Option<bool>: the value returned
    \* one call of process_auth
    aOp,        \* "auth" or "idle"
    aPath,      \* path
    aToken,     \* token_str: Option<String>
    aConfig,    \* config
    aManager,   \* the manager's answers
    aOut,       \* Option of what process_auth returned and called
    \* the middleware of one deployment
    fw,          \* the integration: "actix", "axum", "poem", "salvo", "tide"
    path_config, \* Option<PathAuthConfig> of the layer
    pc,          \* per request: "new", "rejected", "handler", "done", "cancelled"
    req,         \* per request: its path, the credential extracted from it, and
                 \* what the manager answers about that credential
    result,      \* per request: Option<AuthResult> of process_auth
    ctx,         \* per request: Option of the context it passed to set_current
    ext,         \* per request: the values inserted into the request extensions
    response,    \* per request: Option of the response the middleware returned
    worker,      \* per request: the worker running it while its handler is awaited
    calls,       \* per request: the calls made on its behalf, in order
    slot,        \* per worker: the ambient Option<SaTokenContext>
    \* one request handed to extract_token_from_request of every integration
    eName,      \* the configured token_name
    eReq,       \* the request: headers, cookies, query string
    eOut,       \* per integration: Option of what its extraction returned
    \* one call of a method of AuthResult or of validate_login_id
    rOp,        \* "should_reject", "login_id", "validate_login_id", or "idle"
    rArg,       \* the AuthResult the method is called on
    rConfig,    \* the PathAuthConfig validate_login_id is called on
    rId,        \* the login id handed to validate_login_id
    rOut        \* Option of the value returned

matchVars == <<mOp, mPath, mPattern, mConfig, mResult>>

authVars == <<aOp, aPath, aToken, aConfig, aManager, aOut>>

mwVars == <<fw, path_config, pc, req, result, ctx, ext, response, worker, calls, slot>>

extractVars == <<eName, eReq, eOut>>

resultVars == <<rOp, rArg, rConfig, rId, rOut>>

vars == <<matchVars, authVars, mwVars, extractVars, resultVars>>

\* ------------------------------------------------------------------ inputs

Paths == SeqsUpTo(Alphabet, MaxPathLen)
           \cup {Str_api, Str_apix, Str_api_slash, Str_api_user, Str_api_user_profile}

Patterns == SeqsUpTo(Alphabet, MaxPatLen) \cup {Pat_api_star, Pat_api_starstar}

CheckPaths == {Str_api, Str_api_user, Str_api_login, Str_api_user_profile, Str_pub}

CheckPatterns == {Pat_all, Pat_api_starstar, Pat_api_star, Str_api_login}

CheckConfigs ==
    {[include |-> inc, exclude |-> exc, validator |-> None] :
        inc \in SeqsUpTo(CheckPatterns, MaxPatterns),
        exc \in SeqsUpTo(CheckPatterns, MaxPatterns)}

CfgApi ==
    [include |-> <<Pat_api_starstar>>, exclude |-> <<Str_api_login>>, validator |-> None]

CfgApiAlice ==
    [include |-> <<Pat_api_starstar>>, exclude |-> <<Str_api_login>>,
     validator |-> Some({"alice"})]

CfgAllNobody ==
    [include |-> <<Pat_all>>, exclude |-> <<>>, validator |-> Some({})]

\* Configurations with nothing included: every exclude list, with and
\* without a login-id validator.
EmptyIncludeConfigs ==
    {[include |-> <<>>, exclude |-> exc, validator |-> v] :
        exc \in SeqsUpTo(CheckPatterns, MaxPatterns),
        v \in {None, Some({})}}

AuthConfigs == {PathAuthConfig_new, CfgApi, CfgApiAlice, CfgAllNobody}
                 \cup EmptyIncludeConfigs

AuthPaths == {Str_api_user, Str_api_login, Str_pub}

TokenStrs == {None} \cup {Some(t) : t \in Tokens}

MatchIdle ==
    /\ mOp = "idle"
    /\ mPath = <<>>
    /\ mPattern = <<>>
    /\ mConfig = PathAuthConfig_new
    /\ mResult = None

AuthIdle ==
    /\ aOp = "idle"
    /\ aPath = <<>>
    /\ aToken = None
    /\ aConfig = PathAuthConfig_new
    /\ aManager = [valid |-> {}, resolvable |-> {}]
    /\ aOut = None

\* The two requests the middleware processes concurrently.
Reqs == {"r1", "r2"}

Workers == 1..NumWorkers

Frameworks == {"actix", "axum", "poem", "salvo", "tide"}

ReqPaths == {Str_api_user, Str_api_login}

NoRequest ==
    [path |-> <<>>, token_str |-> None, manager |-> [valid |-> {}, resolvable |-> {}]]

InitRequests ==
    /\ pc = [r \in Reqs |-> "new"]
    /\ req = [r \in Reqs |-> NoRequest]
    /\ result = [r \in Reqs |-> None]
    /\ ctx = [r \in Reqs |-> None]
    /\ ext = [r \in Reqs |-> {}]
    /\ response = [r \in Reqs |-> None]
    /\ worker = [r \in Reqs |-> 0]
    /\ calls = [r \in Reqs |-> <<>>]
    /\ slot = [w \in Workers |-> None]

MiddlewareIdle ==
    /\ fw = "idle"
    /\ path_config = None
    /\ InitRequests

\* The tokens the four sources of a request carry.
Tok_H == <<"H">>

Tok_A == <<"A">>

Tok_C == <<"C">>

Tok_Q == <<"Q">>

TokenNames == {Name_satoken, Name_Authorization}

\* Values of a header that carries the token t: empty, the token, the token
\* behind "Bearer ", behind "Bearer " and a second space, behind two
\* prefixes, and the prefix alone.
HeaderValues(t) ==
    {<<>>, t, BEARER_PREFIX \o t, BEARER_PREFIX \o <<" ">> \o t,
     BEARER_PREFIX \o BEARER_PREFIX \o t, BEARER_PREFIX}

OptionOf(S) == {None} \cup {Some(x) : x \in S}

\* The headers of a request under token_name: the named header and, when it
\* is another header, Authorization.
HeaderMaps(name) ==
    IF name = Name_Authorization
    THEN {[h \in {Name_satoken, Name_authorization} |->
              IF h = Name_authorization THEN v ELSE None] :
          v \in OptionOf(HeaderValues(Tok_H))}
    ELSE {[h \in {Name_satoken, Name_authorization} |->
              IF h = Name_authorization THEN a ELSE v] :
          v \in OptionOf(HeaderValues(Tok_H)),
          a \in OptionOf({<<>>, Tok_A, BEARER_PREFIX \o Tok_A})}

Name_other == <<"z">>

CookieJars(name) ==
    {<<>>,
     <<[name |-> name, value |-> Tok_C]>>,
     <<[name |-> name, value |-> <<>>]>>,
     <<[name |-> Name_other, value |-> <<"Z">>],
       [name |-> name, value |-> BEARER_PREFIX \o Tok_C]>>}

QueryStrings(name) ==
    {<<>>,
     name,
     name \o <<"=">>,
     name \o <<"=">> \o Tok_Q,
     Name_other \o <<"=", "Z", "&">> \o name \o <<"=">> \o Tok_Q,
     name \o <<"=", "B", "e", "a", "r", "e", "r", "%", "2", "0">> \o Tok_Q,
     name \o <<"=">> \o Tok_Q \o <<"=", "R">>}

HttpRequests(name) ==
    [headers : HeaderMaps(name),
     cookies : CookieJars(name),
     query   : OptionOf(QueryStrings(name))]

NoHttpRequest ==
    [headers |-> [h \in {Name_satoken, Name_authorization} |-> None],
     cookies |-> <<>>,
     query   |-> None]

ExtractIdle ==
    /\ eName = <<>>
    /\ eReq = NoHttpRequest
    /\ eOut = [f \in Frameworks |-> None]

\* Every value an AuthResult can hold, whether or not process_auth builds it.
AuthResults ==
    [need_auth  : BOOLEAN,
     token      : TokenStrs,
     token_info : OptionOf({[login_id |-> l] : l \in LoginIds}),
     is_valid   : BOOLEAN]

NoAuthResult ==
    [need_auth |-> FALSE, token |-> None, token_info |-> None, is_valid |-> FALSE]

\* Login ids handed to validate_login_id, the empty one included.
ValidatedIds == LoginIds \cup {"carol", ""}

\* Configurations without a validator and with each validator over the ids.
ValidatorConfigs ==
    {[include |-> <<>>, exclude |-> <<>>, validator |-> v] :
        v \in OptionOf(SUBSET ValidatedIds)}

ResultIdle ==
    /\ rOp = "idle"
    /\ rArg = NoAuthResult
    /\ rConfig = PathAuthConfig_new
    /\ rId = ""
    /\ rOut = None

\* ------------------------------------------------------------------ matcher calls

InitMatch ==
    /\ AuthIdle
    /\ MiddlewareIdle
    /\ ExtractIdle
    /\ ResultIdle
    /\ mResult = None
    /\ \/ /\ mOp = "match"
          /\ mPath \in Paths
          /\ mPattern \in Patterns
          /\ mConfig = PathAuthConfig_new
       \/ /\ mOp = "check"
          /\ mPath \in CheckPaths
          /\ mPattern = <<>>
          /\ mConfig \in CheckConfigs

MatchPath ==
    /\ mOp = "match"
    /\ mResult = None
    /\ mResult' = Some(match_path(mPath, mPattern))
    /\ UNCHANGED <<mOp, mPath, mPattern, mConfig, authVars, mwVars, extractVars, resultVars>>

CheckPath ==
    /\ mOp = "check"
    /\ mResult = None
    /\ mResult' = Some(PathAuthConfig_check(mConfig, mPath))
    /\ UNCHANGED <<mOp, mPath, mPattern, mConfig, authVars, mwVars, extractVars, resultVars>>

NextMatch == MatchPath \/ CheckPath

SpecMatch == InitMatch /\ [][NextMatch]_vars

\* ------------------------------------------------------------------ process_auth calls

InitAuth ==
    /\ MatchIdle
    /\ MiddlewareIdle
    /\ ExtractIdle
    /\ ResultIdle
    /\ aOp = "auth"
    /\ aPath \in AuthPaths
    /\ aToken \in TokenStrs
    /\ aConfig \in AuthConfigs
    /\ aManager \in Managers
    /\ aOut = None

ProcessAuth ==
    /\ aOp = "auth"
    /\ aOut = None
    /\ aOut' = Some(process_auth(aPath, aToken, aConfig, aManager))
    /\ UNCHANGED <<aOp, aPath, aToken, aConfig, aManager, matchVars, mwVars, extractVars, resultVars>>

NextAuth == ProcessAuth

SpecAuth == InitAuth /\ [][NextAuth]_vars

\* ------------------------------------------------------------------ AuthResult calls

InitResult ==
    /\ MatchIdle
    /\ AuthIdle
    /\ MiddlewareIdle
    /\ ExtractIdle
    /\ \/ /\ rOp \in {"should_reject", "login_id"}
          /\ rArg \in AuthResults
          /\ rConfig = PathAuthConfig_new
          /\ rId = ""
       \/ /\ rOp = "validate_login_id"
          /\ rArg = NoAuthResult
          /\ rConfig \in ValidatorConfigs
          /\ rId \in ValidatedIds
    /\ rOut = None

ShouldReject ==
    /\ rOp = "should_reject"
    /\ rOut = None
    /\ rOut' = Some(should_reject(rArg))
    /\ UNCHANGED <<rOp, rArg, rConfig, rId, matchVars, authVars, mwVars, extractVars>>

LoginId ==
    /\ rOp = "login_id"
    /\ rOut = None
    /\ rOut' = Some(login_id(rArg))
    /\ UNCHANGED <<rOp, rArg, rConfig, rId, matchVars, authVars, mwVars, extractVars>>

ValidateLoginId ==
    /\ rOp = "validate_login_id"
    /\ rOut = None
    /\ rOut' = Some(validate_login_id(rConfig, rId))
    /\ UNCHANGED <<rOp, rArg, rConfig, rId, matchVars, authVars, mwVars, extractVars>>

NextResult == ShouldReject \/ LoginId \/ ValidateLoginId

SpecResult == InitResult /\ [][NextResult]_vars

\* ------------------------------------------------------------------ extraction calls

InitExtract ==
    /\ MatchIdle
    /\ AuthIdle
    /\ MiddlewareIdle
    /\ ResultIdle
    /\ eName \in TokenNames
    /\ eReq \in HttpRequests(eName)
    /\ eOut = [f \in Frameworks |-> None]

\* Integration f extracts the token of the request.
Extract(f) ==
    /\ eName # <<>>
    /\ eOut[f] = None
    /\ eOut' = [eOut EXCEPT ![f] = Some(extract_token_from_request(f, eReq, eName))]
    /\ UNCHANGED <<eName, eReq, matchVars, authVars, mwVars, resultVars>>

NextExtract == \E f \in Frameworks : Extract(f)

SpecExtract == InitExtract /\ [][NextExtract]_vars

\* ------------------------------------------------------------------ middleware

StatusUnauthorized == 401

\* The answer to a rejected request: the status and, where the integration
\* writes one, the JSON body {"code": 401, "message": AUTH_ERROR}.
RejectResponse(f) ==
    [kind   |-> "unauthorized",
     status |-> StatusUnauthorized,
     body   |-> IF f = "actix"
                THEN Some([code |-> StatusUnauthorized, message |-> "AUTH_ERROR"])
                ELSE None]

\* What the wrapped handler answers, a response ("ok") or an error ("err");
\* the middleware hands it on unchanged. Its status is the handler's own
\* business and is written 0.
HandlerResponse(outcome) == [kind |-> outcome, status |-> 0, body |-> None]

\* The values the path-auth branch inserts into the request extensions.
PathAuthExtensions(f, res) ==
    IF f \in {"actix", "axum"}
    THEN Range(res.token) \cup Range(login_id(res))
    ELSE {}

Init ==
    /\ MatchIdle
    /\ AuthIdle
    /\ ExtractIdle
    /\ ResultIdle
    /\ fw \in Frameworks
    /\ path_config \in {None, Some(CfgApiAlice)}
    /\ InitRequests

\* The rejection branch that publishes the context before it answers 401.
RejectBranch_publishes(r, out, w) ==
    /\ pc' = [pc EXCEPT ![r] = "rejected"]
    /\ response' = [response EXCEPT ![r] = Some(RejectResponse(fw))]
    /\ calls' = [calls EXCEPT ![r] = @ \o out.calls \o <<"set_current">>]
    /\ slot' = set_current(slot, w, create_context(out.result))
    /\ UNCHANGED <<ctx, ext, worker>>

\* should_reject(): answer 401; the handler is not called, nothing is published.
RejectBranch(r, out, w) ==
    /\ pc' = [pc EXCEPT ![r] = "rejected"]
    /\ response' = [response EXCEPT ![r] = Some(RejectResponse(fw))]
    /\ calls' = [calls EXCEPT ![r] = @ \o out.calls]
    /\ UNCHANGED <<ctx, ext, worker, slot>>

\* Not rejected: fill the extensions, publish the context on the worker the
\* task runs on, and call the wrapped handler, which suspends.
ForwardBranch(r, out, w) ==
    LET c == create_context(out.result)
    IN  /\ pc' = [pc EXCEPT ![r] = "handler"]
        /\ ext' = [ext EXCEPT ![r] = PathAuthExtensions(fw, out.result)]
        /\ ctx' = [ctx EXCEPT ![r] = Some(c)]
        /\ slot' = set_current(slot, w, c)
        /\ worker' = [worker EXCEPT ![r] = w]
        /\ calls' = [calls EXCEPT ![r] = @ \o out.calls \o <<"set_current", "inner.call">>]
        /\ UNCHANGED response

\* The layer with a path configuration that forwards every request.
PathAuthCall_forwards_all(r) ==
    /\ pc[r] = "new"
    /\ IsSome(path_config)
    /\ \E path \in ReqPaths, tok \in TokenStrs, w \in Workers :
      \E m \in ManagersFor(tok) :
          LET out == process_auth(path, tok, Unwrap(path_config), m)
          IN  /\ req' = [req EXCEPT ![r] =
                            [path |-> path, token_str |-> tok, manager |-> m]]
              /\ result' = [result EXCEPT ![r] = Some(out.result)]
              /\ ForwardBranch(r, out, w)
    /\ UNCHANGED <<fw, path_config, matchVars, authVars,
                   extractVars, resultVars>>

\* The layer with a path configuration, from the arrival of the request to
\* its rejection or to the await of the wrapped handler. process_auth awaits
\* the manager, whose answers are the manager m of the step; nothing shared
\* between requests is read or written until set_current.
PathAuthCall(r) ==
    /\ pc[r] = "new"
    /\ IsSome(path_config)
    /\ \E path \in ReqPaths, tok \in TokenStrs, w \in Workers :
      \E m \in ManagersFor(tok) :
          LET out == process_auth(path, tok, Unwrap(path_config), m)
          IN  /\ req' = [req EXCEPT ![r] =
                            [path |-> path, token_str |-> tok, manager |-> m]]
              /\ result' = [result EXCEPT ![r] = Some(out.result)]
              /\ IF should_reject(out.result)
                 THEN RejectBranch(r, out, w)
                 ELSE ForwardBranch(r, out, w)
    /\ UNCHANGED <<fw, path_config, matchVars, authVars,
                   extractVars, resultVars>>

\* The context the layer without a path configuration builds: new, and
\* filled when the token is valid and its token info resolves.
PlainContext(tok, m) ==
    LET valid == IF IsSome(tok) THEN manager_is_valid(m, Unwrap(tok)) ELSE FALSE
        info  == IF valid THEN manager_get_token_info(m, Unwrap(tok)) ELSE None
    IN  IF IsSome(info)
        THEN [token      |-> tok,
              token_info |-> info,
              login_id   |-> Some(Unwrap(info).login_id)]
        ELSE SaTokenContext_new

\* The layer without a path configuration that answers 401 to a token the
\* manager reports invalid.
PlainCall_rejects_invalid(r) ==
    /\ pc[r] = "new"
    /\ path_config = None
    /\ \E path \in ReqPaths, tok \in TokenStrs, w \in Workers :
      \E m \in ManagersFor(tok) :
          LET valid == IF IsSome(tok) THEN manager_is_valid(m, Unwrap(tok)) ELSE FALSE
              info  == IF valid THEN manager_get_token_info(m, Unwrap(tok)) ELSE None
              c     == PlainContext(tok, m)
          IN  /\ req' = [req EXCEPT ![r] =
                            [path |-> path, token_str |-> tok, manager |-> m]]
              /\ IF IsSome(tok) /\ ~valid
                 THEN /\ pc' = [pc EXCEPT ![r] = "rejected"]
                      /\ response' = [response EXCEPT ![r] = Some(RejectResponse(fw))]
                      /\ calls' = [calls EXCEPT ![r] = <<"is_valid">>]
                      /\ UNCHANGED <<ext, ctx, slot, worker>>
                 ELSE /\ ext' = [ext EXCEPT ![r] =
                                    (IF valid THEN Range(tok) ELSE {})
                                    \cup (IF IsSome(info) THEN {Unwrap(info).login_id} ELSE {})]
                      /\ ctx' = [ctx EXCEPT ![r] = Some(c)]
                      /\ slot' = set_current(slot, w, c)
                      /\ worker' = [worker EXCEPT ![r] = w]
                      /\ calls' = [calls EXCEPT ![r] =
                                      (IF IsSome(tok) THEN <<"is_valid">> ELSE <<>>)
                                      \o (IF valid THEN <<"get_token_info">> ELSE <<>>)
                                      \o <<"set_current", "inner.call">>]
                      /\ pc' = [pc EXCEPT ![r] = "handler"]
                      /\ UNCHANGED response
    /\ UNCHANGED <<fw, path_config, result, matchVars, authVars,
                   extractVars, resultVars>>

\* The layer without a path configuration: validate the token if there is
\* one, publish what was resolved, call the wrapped handler.
PlainCall(r) ==
    /\ pc[r] = "new"
    /\ path_config = None
    /\ \E path \in ReqPaths, tok \in TokenStrs, w \in Workers :
      \E m \in ManagersFor(tok) :
          LET valid == IF IsSome(tok) THEN manager_is_valid(m, Unwrap(tok)) ELSE FALSE
              info  == IF valid THEN manager_get_token_info(m, Unwrap(tok)) ELSE None
              c     == PlainContext(tok, m)
          IN  /\ req' = [req EXCEPT ![r] =
                            [path |-> path, token_str |-> tok, manager |-> m]]
              /\ ext' = [ext EXCEPT ![r] =
                            (IF valid THEN Range(tok) ELSE {})
                            \cup (IF IsSome(info) THEN {Unwrap(info).login_id} ELSE {})]
              /\ ctx' = [ctx EXCEPT ![r] = Some(c)]
              /\ slot' = set_current(slot, w, c)
              /\ worker' = [worker EXCEPT ![r] = w]
              /\ calls' = [calls EXCEPT ![r] =
                              (IF IsSome(tok) THEN <<"is_valid">> ELSE <<>>)
                              \o (IF valid THEN <<"get_token_info">> ELSE <<>>)
                              \o <<"set_current", "inner.call">>]
              /\ pc' = [pc EXCEPT ![r] = "handler"]
    /\ UNCHANGED <<fw, path_config, result, response, matchVars, authVars,
                   extractVars, resultVars>>

\* The tail of the middleware that returns without clearing the slot.
HandlerReturn_no_clear(r) ==
    /\ pc[r] = "handler"
    /\ \E outcome \in {"ok", "err"} :
          response' = [response EXCEPT ![r] = Some(HandlerResponse(outcome))]
    /\ calls' = [calls EXCEPT ![r] = @ \o <<"clear">>]
    /\ pc' = [pc EXCEPT ![r] = "done"]
    /\ worker' = [worker EXCEPT ![r] = 0]
    /\ UNCHANGED <<fw, path_config, req, result, ctx, ext, slot, matchVars, authVars,
                   extractVars, resultVars>>

\* The wrapped handler completes, with a response or with an error: the
\* task resumes on its worker, clears that worker's slot and returns what
\* the handler returned.
HandlerReturn(r) ==
    /\ pc[r] = "handler"
    /\ \E outcome \in {"ok", "err"} :
          response' = [response EXCEPT ![r] = Some(HandlerResponse(outcome))]
    /\ slot' = clear(slot, worker[r])
    /\ calls' = [calls EXCEPT ![r] = @ \o <<"clear">>]
    /\ pc' = [pc EXCEPT ![r] = "done"]
    /\ worker' = [worker EXCEPT ![r] = 0]
    /\ UNCHANGED <<fw, path_config, req, result, ctx, ext, matchVars, authVars,
                   extractVars, resultVars>>

\* The request's future is dropped while it awaits the handler: nothing
\* after the await runs.
Cancel(r) ==
    /\ pc[r] = "handler"
    /\ pc' = [pc EXCEPT ![r] = "cancelled"]
    /\ worker' = [worker EXCEPT ![r] = 0]
    /\ UNCHANGED <<fw, path_config, req, result, ctx, ext, response, calls, slot,
                   matchVars, authVars,
                   extractVars, resultVars>>

\* The suspended task is resumed by another worker. The futures of every
\* integration but actix-web are Send; an actix-web task stays on its worker.
Migrate(r) ==
    /\ pc[r] = "handler"
    /\ fw # "actix"
    /\ \E w \in Workers \ {worker[r]} : worker' = [worker EXCEPT ![r] = w]
    /\ UNCHANGED <<fw, path_config, pc, req, result, ctx, ext, response, calls, slot,
                   matchVars, authVars,
                   extractVars, resultVars>>

Next ==
    \E r \in Reqs :
        \/ PathAuthCall(r)
        \/ PlainCall(r)
        \/ HandlerReturn(r)
        \/ Cancel(r)
        \/ Migrate(r)

Spec == Init /\ [][Next]_vars

\* ------------------------------------------------------------------ login check (actix-web)

\* Init of the deployment whose requests go through SaCheckLoginMiddleware:
\* the integration is actix-web and the middleware has no path configuration.
InitCheckLogin ==
    /\ MatchIdle
    /\ AuthIdle
    /\ ExtractIdle
    /\ ResultIdle
    /\ fw = "actix"
    /\ path_config = None
    /\ InitRequests

\* The login check that calls the wrapped handler with an empty context when
\* the token is valid and its token info does not resolve.
CheckLoginCall_forwards_unresolved(r) ==
    /\ pc[r] = "new"
    /\ \E path \in ReqPaths, tok \in TokenStrs, w \in Workers :
      \E m \in ManagersFor(tok) :
          LET valid == IF IsSome(tok) THEN manager_is_valid(m, Unwrap(tok)) ELSE FALSE
              info  == IF valid THEN manager_get_token_info(m, Unwrap(tok)) ELSE None
              c     == PlainContext(tok, m)
              asked == (IF IsSome(tok) THEN <<"is_valid">> ELSE <<>>)
                       \o (IF valid THEN <<"get_token_info">> ELSE <<>>)
          IN  /\ req' = [req EXCEPT ![r] =
                            [path |-> path, token_str |-> tok, manager |-> m]]
              /\ ext' = [ext EXCEPT ![r] =
                            (IF valid THEN Range(tok) ELSE {})
                            \cup (IF IsSome(info) THEN {Unwrap(info).login_id} ELSE {})]
              /\ IF valid
                 THEN /\ ctx' = [ctx EXCEPT ![r] = Some(c)]
                      /\ slot' = set_current(slot, w, c)
                      /\ worker' = [worker EXCEPT ![r] = w]
                      /\ calls' = [calls EXCEPT ![r] =
                                      asked \o <<"set_current", "inner.call">>]
                      /\ pc' = [pc EXCEPT ![r] = "handler"]
                      /\ UNCHANGED response
                 ELSE /\ pc' = [pc EXCEPT ![r] = "rejected"]
                      /\ response' = [response EXCEPT ![r] = Some(RejectResponse(fw))]
                      /\ calls' = [calls EXCEPT ![r] = asked]
                      /\ UNCHANGED <<ctx, slot, worker>>
    /\ UNCHANGED <<fw, path_config, result, matchVars, authVars,
                   extractVars, resultVars>>

\* SaCheckLoginMiddlewareService::call, from the arrival of the request to
\* the 401 or to the await of the wrapped handler. The token goes into the
\* extensions as soon as the manager reports it valid; the context is filled
\* and published, and the handler called, only inside the branch where the
\* token info resolved; every other path falls through to the 401.
CheckLoginCall(r) ==
    /\ pc[r] = "new"
    /\ \E path \in ReqPaths, tok \in TokenStrs, w \in Workers :
      \E m \in ManagersFor(tok) :
          LET valid == IF IsSome(tok) THEN manager_is_valid(m, Unwrap(tok)) ELSE FALSE
              info  == IF valid THEN manager_get_token_info(m, Unwrap(tok)) ELSE None
              c     == PlainContext(tok, m)
              asked == (IF IsSome(tok) THEN <<"is_valid">> ELSE <<>>)
                       \o (IF valid THEN <<"get_token_info">> ELSE <<>>)
          IN  /\ req' = [req EXCEPT ![r] =
                            [path |-> path, token_str |-> tok, manager |-> m]]
              /\ ext' = [ext EXCEPT ![r] =
                            (IF valid THEN Range(tok) ELSE {})
                            \cup (IF IsSome(info) THEN {Unwrap(info).login_id} ELSE {})]
              /\ IF IsSome(info)
                 THEN /\ ctx' = [ctx EXCEPT ![r] = Some(c)]
                      /\ slot' = set_current(slot, w, c)
                      /\ worker' = [worker EXCEPT ![r] = w]
                      /\ calls' = [calls EXCEPT ![r] =
                                      asked \o <<"set_current", "inner.call">>]
                      /\ pc' = [pc EXCEPT ![r] = "handler"]
                      /\ UNCHANGED response
                 ELSE /\ pc' = [pc EXCEPT ![r] = "rejected"]
                      /\ response' = [response EXCEPT ![r] = Some(RejectResponse(fw))]
                      /\ calls' = [calls EXCEPT ![r] = asked]
                      /\ UNCHANGED <<ctx, slot, worker>>
    /\ UNCHANGED <<fw, path_config, result, matchVars, authVars,
                   extractVars, resultVars>>

NextCheckLogin ==
    \E r \in Reqs :
        \/ CheckLoginCall(r)
        \/ HandlerReturn(r)
        \/ Cancel(r)

SpecCheckLogin == InitCheckLogin /\ [][NextCheckLogin]_vars

\* ------------------------------------------------------------------ properties: middleware

Count(seq, x) == Cardinality({i \in 1..Len(seq) : seq[i] = x})

\* i is the position of the first x in seq.
FirstAt(seq, x, i) == seq[i] = x /\ \A j \in 1..(i - 1) : seq[j] # x

\* No other request has reached the middleware.
Alone(r) == \A q \in Reqs \ {r} : pc[q] = "new"

Over(r) == pc[r] \in {"rejected", "done", "cancelled"}

\* C1: with two requests in the middleware, the context the handler of one
\* reads is the context that request published, not the other request's and
\* not an empty slot.
C1_HandlerReadsOwnContext ==
    \A r \in Reqs, q \in Reqs :
        (r # q /\ pc[r] = "handler" /\ pc[q] # "new")
            => current(slot, worker[r]) = ctx[r]

\* The request published a context that carries an identity.
PublishedIdentity(r) ==
    /\ "set_current" \in Range(calls[r])
    /\ IsSome(ctx[r])
    /\ IsSome(Unwrap(ctx[r]).login_id)

\* C2: once a request published its identity, clear() runs however the
\* handler ends (return, error, cancellation), and no published identity is
\* left in a slot when every request is over.
C2_ClearOnEveryExit ==
    /\ \A r \in Reqs :
          (Over(r) /\ PublishedIdentity(r)) => "clear" \in Range(calls[r])
    /\ (\A r \in Reqs : Over(r)) =>
          \A w \in Workers : IsSome(slot[w]) => Unwrap(slot[w]).login_id = None

\* C3, in states: a request alone in the path-auth middleware finds every
\* slot empty before it publishes, and calls set_current exactly once, before
\* the wrapped handler, if it is not rejected.
C3_LifecycleState(r) ==
    (Alone(r) /\ IsSome(path_config)) =>
        /\ pc[r] = "new" => \A w \in Workers : slot[w] = None
        /\ pc[r] \in {"handler", "done", "cancelled"} =>
              /\ Count(calls[r], "set_current") = 1
              /\ Count(calls[r], "inner.call") = 1
              /\ \E i \in 1..Len(calls[r]), j \in 1..Len(calls[r]) :
                    /\ FirstAt(calls[r], "set_current", i)
                    /\ FirstAt(calls[r], "inner.call", j)
                    /\ i < j

\* C3, in steps: while the handler of that request runs no slot changes, and
\* when the middleware returns the context of the returning task is empty.
C3_LifecycleStep(r) ==
    (Alone(r) /\ Alone(r)' /\ IsSome(path_config) /\ pc[r] = "handler") =>
        /\ pc'[r] = "handler" => slot' = slot
        /\ pc'[r] = "done" => current(slot', worker[r]) = None

C4_RejectedNeverPublishes ==
    \A r \in Reqs :
        (IsSome(result[r]) /\ should_reject(Unwrap(result[r]))) =>
            /\ pc[r] = "rejected"
            /\ IsSome(response[r])
            /\ Unwrap(response[r]).status = StatusUnauthorized
            /\ "set_current" \notin Range(calls[r])
            /\ "inner.call" \notin Range(calls[r])
            /\ ctx[r] = None
            /\ \A w \in Workers : IsSome(slot[w]) => \E q \in Reqs \ {r} : slot[w] = ctx[q]

C4_Witness ==
    \E r \in Reqs :
        /\ pc[r] = "rejected"
        /\ req[r].path = Str_api_user
        /\ req[r].token_str = Some("tB")
        /\ IsSome(Unwrap(result[r]).token_info)
        /\ should_reject(Unwrap(result[r]))
        /\ Unwrap(response[r]).status = StatusUnauthorized

\* ------------------------------------------------------------------ properties: process_auth

AuthDone == aOp = "auth" /\ IsSome(aOut)

AuthRes == Unwrap(aOut).result

AuthCalls == Unwrap(aOut).calls

\* The path of the call requires auth under the configuration of the call.
AuthPathNeedsAuth ==
    /\ \E i \in 1..Len(aConfig.include) : match_path(aPath, aConfig.include[i])
    /\ \A i \in 1..Len(aConfig.exclude) : ~match_path(aPath, aConfig.exclude[i])

\* The manager reports the token of the call valid and resolves its identity.
AuthTokenResolved ==
    /\ IsSome(aToken)
    /\ Unwrap(aToken) \in aManager.valid
    /\ Unwrap(aToken) \in aManager.resolvable

\* The configured login-id predicate rejects the owner of the token.
AuthPredicateRejects ==
    /\ IsSome(aToken)
    /\ IsSome(aConfig.validator)
    /\ Owner(Unwrap(aToken)) \notin Unwrap(aConfig.validator)

\* C5: on a path that requires auth, a token that is valid and resolved but
\* whose login id the configured predicate rejects gives is_valid = false
\* and should_reject() = true.
C5_PredicateRejectionRejects ==
    (AuthDone /\ AuthPathNeedsAuth /\ AuthTokenResolved /\ AuthPredicateRejects)
        => (~AuthRes.is_valid /\ should_reject(AuthRes))

C5_Witness ==
    /\ AuthDone /\ AuthPathNeedsAuth /\ AuthTokenResolved /\ AuthPredicateRejects
    /\ aToken = Some("tB") /\ aConfig = CfgApiAlice /\ aPath = Str_api_user
    /\ should_reject(AuthRes)

\* C6: on every path that requires auth, a request without a token is
\* rejected.
C6_NoTokenRejected ==
    (AuthDone /\ AuthPathNeedsAuth /\ aToken = None) => should_reject(AuthRes)

C6_Witness ==
    /\ AuthDone /\ AuthPathNeedsAuth /\ aToken = None
    /\ AuthRes.token = None /\ ~AuthRes.is_valid

\* C7: a request whose path does not require auth is never rejected, and a
\* token the manager reports valid keeps is_valid = true there, whatever the
\* configured predicate says of its login id.
C7_NoAuthNeverRejects ==
    (AuthDone /\ ~AuthPathNeedsAuth)
        => /\ ~should_reject(AuthRes)
           /\ (IsSome(aToken) /\ Unwrap(aToken) \in aManager.valid) => AuthRes.is_valid

C7_Witness ==
    /\ AuthDone /\ ~AuthPathNeedsAuth /\ AuthTokenResolved /\ AuthPredicateRejects
    /\ AuthRes.is_valid /\ ~should_reject(AuthRes)

\* C8: the login-id predicate is invoked only when the path requires auth,
\* the token was reported valid and its identity was resolved; never for a
\* path that does not require auth.
C8_PredicateOnlyWhenNeeded ==
    (AuthDone /\ "validate_login_id" \in Range(AuthCalls))
        => (AuthPathNeedsAuth /\ AuthTokenResolved)

C8_Witness ==
    /\ AuthDone
    /\ AuthCalls = <<"is_valid", "get_token_info", "validate_login_id">>
    /\ AuthPathNeedsAuth

\* ------------------------------------------------------------------ properties: matcher

MatchDone == mOp = "match" /\ IsSome(mResult)

CheckDone == mOp = "check" /\ IsSome(mResult)

SomeIncludeMatches == \E p \in Range(mConfig.include) : match_path(mPath, p)

SomeExcludeMatches == \E p \in Range(mConfig.exclude) : match_path(mPath, p)

\* C9: check(path) is true iff some include pattern matches the path and no
\* exclude pattern does; a matching exclude pattern makes it false whatever
\* the include list holds.
C9_CheckIsIncludeMinusExclude ==
    CheckDone =>
        /\ Unwrap(mResult) = (SomeIncludeMatches /\ ~SomeExcludeMatches)
        /\ SomeExcludeMatches => ~Unwrap(mResult)

C9_Witness ==
    /\ CheckDone
    /\ SomeIncludeMatches /\ SomeExcludeMatches
    /\ mResult = Some(FALSE)

\* The part of a path below the prefix "<p>/" of a pattern "<p>/*".
BelowPrefix(path, pattern) == SubSeq(path, Len(pattern), Len(path))

\* C10: under a single-level pattern "<p>/*" a path "<p>/<seg>" matches when
\* <seg> holds no '/', and does not match when a further segment follows.
C10_SingleLevelMatchesOneSegment ==
    (/\ MatchDone
     /\ EndsWith(mPattern, SlashStar)
     /\ ~StartsWith(mPattern, <<"*">>)
     /\ StartsWith(mPath, SubSeq(mPattern, 1, Len(mPattern) - 1)))
        => Unwrap(mResult) = ~Contains(BelowPrefix(mPath, mPattern), "/")

\* C11: match_path(p, "/api/**") is true exactly for the paths p that start
\* with "/api/"; "/api" itself and "/apix" do not match.
C11_PrefixPatternNeedsSlash ==
    (MatchDone /\ mPattern = Pat_api_starstar)
        => Unwrap(mResult) = StartsWith(mPath, Str_api_slash)

\* ------------------------------------------------------------------ properties: extraction

ExtractDone(f) == eName # <<>> /\ IsSome(eOut[f])

ExtractOut(f) == Unwrap(eOut[f])

\* The sources of the request, read off the request itself.
NamedHeader == eReq.headers[IF eName = Name_Authorization THEN Name_authorization ELSE eName]

AuthorizationHeader ==
    IF eName = Name_Authorization THEN None ELSE eReq.headers[Name_authorization]

NamedCookies == {i \in 1..Len(eReq.cookies) : eReq.cookies[i].name = eName}

NamedParams ==
    IF eReq.query = None THEN {}
    ELSE {pair \in Range(split(Unwrap(eReq.query), "&")) : StartsWith(pair, eName \o <<"=">>)}

FirstTier ==
    IF IsSome(NamedHeader) THEN "header"
    ELSE IF IsSome(AuthorizationHeader) THEN "authorization"
    ELSE IF NamedCookies # {} THEN "cookie"
    ELSE IF NamedParams # {} THEN "query"
    ELSE "none"

\* Every source the request has carries its own token and nothing else.
PlainRequest ==
    /\ NamedHeader \in {None, Some(Tok_H)}
    /\ AuthorizationHeader \in {None, Some(Tok_A)}
    /\ eReq.cookies \in {<<>>, <<[name |-> eName, value |-> Tok_C]>>}
    /\ eReq.query \in {None, Some(eName \o <<"=">> \o Tok_Q)}

PlainToken ==
    CASE FirstTier = "header"        -> Some(Tok_H)
      [] FirstTier = "authorization" -> Some(Tok_A)
      [] FirstTier = "cookie"        -> Some(Tok_C)
      [] FirstTier = "query"         -> Some(Tok_Q)
      [] OTHER                       -> None

\* C12: extract_token_from_request of axum and of actix-web answers from the
\* first source present in the order named header, Authorization header,
\* cookie, query parameter, and None when there is none; on a request whose
\* sources carry distinct tokens every integration returns the token of the
\* first source present, the named header's when all four are there.
C12_FirstSourceWins ==
    /\ \A f \in {"axum", "actix"} :
          ExtractDone(f) =>
              /\ ExtractOut(f).tier = FirstTier
              /\ (ExtractOut(f).token = None) <=> (FirstTier = "none")
    /\ \A f \in Frameworks :
          (ExtractDone(f) /\ PlainRequest) => ExtractOut(f).token = PlainToken

C12_Witness ==
    /\ ExtractDone("axum") /\ ExtractDone("actix")
    /\ eName = Name_satoken
    /\ NamedHeader = Some(Tok_H)
    /\ AuthorizationHeader = Some(Tok_A)
    /\ eReq.cookies = <<[name |-> eName, value |-> Tok_C]>>
    /\ eReq.query = Some(eName \o <<"=">> \o Tok_Q)
    /\ ExtractOut("axum").token = Some(Tok_H)
    /\ ExtractOut("actix").token = Some(Tok_H)

\* C13: on the same request and token_name, the extractions of all five
\* integrations return the same token.
C13_IntegrationsAgree ==
    \A f \in Frameworks, g \in Frameworks :
        (ExtractDone(f) /\ ExtractDone(g)) => ExtractOut(f).token = ExtractOut(g).token

\* A header value with one leading "Bearer " removed, if it has one.
StripOnce(v) ==
    IF StartsWith(v, BEARER_PREFIX) THEN SubSeq(v, Len(BEARER_PREFIX) + 1, Len(v)) ELSE v

\* C20: in axum and actix-web a credential from a header is the header value
\* with exactly one leading "Bearer " removed and nothing else changed; a
\* credential from the cookie is the cookie value as it is, and one from the
\* query keeps a "Bearer " prefix.
C20_BearerStrippedOnceInHeadersOnly ==
    \A f \in {"axum", "actix"} :
        ExtractDone(f) =>
            /\ ExtractOut(f).tier = "header"
                  => ExtractOut(f).token = Some(StripOnce(Unwrap(NamedHeader)))
            /\ ExtractOut(f).tier = "authorization"
                  => ExtractOut(f).token = Some(StripOnce(Unwrap(AuthorizationHeader)))
            /\ ExtractOut(f).tier = "cookie"
                  => ExtractOut(f).token = Some(eReq.cookies[Min(NamedCookies)].value)
            /\ (/\ ExtractOut(f).tier = "query"
                /\ \E pair \in NamedParams :
                      StartsWith(pair, eName \o <<"=", "B", "e", "a", "r", "e", "r", "%", "2", "0">>))
                  => StartsWith(Unwrap(ExtractOut(f).token), BEARER_PREFIX)

\* ------------------------------------------------------------------ properties: rejection, process_auth, AuthResult

\* The JSON body {"code": 401, "message": <auth-error message>}.
AuthErrorBody == [code |-> 401, message |-> "AUTH_ERROR"]

\* C14: in every integration a rejected request is answered with status 401
\* and the JSON body holding code 401 and the auth-error message.
C14_RejectionCarriesJsonBody ==
    \A r \in Reqs :
        pc[r] = "rejected" =>
            /\ IsSome(response[r])
            /\ Unwrap(response[r]).status = 401
            /\ Unwrap(response[r]).body = Some(AuthErrorBody)

\* The manager reports the token of the call valid.
AuthRawValid == IsSome(aToken) /\ Unwrap(aToken) \in aManager.valid

\* The manager reports the token valid and fails to resolve its identity.
AuthResolutionFails == AuthRawValid /\ Unwrap(aToken) \notin aManager.resolvable

\* C15: when the token is reported valid and its identity does not resolve,
\* process_auth still returns an AuthResult; its token_info is None, and on
\* a path that requires auth its is_valid is false and should_reject() true.
C15_ResolutionFailureDegrades ==
    (AuthDone /\ AuthResolutionFails) =>
        /\ AuthRes.token = aToken
        /\ AuthRes.token_info = None
        /\ AuthPathNeedsAuth => (~AuthRes.is_valid /\ should_reject(AuthRes))

C15_Witness ==
    /\ AuthDone /\ AuthResolutionFails /\ AuthPathNeedsAuth
    /\ AuthRes.token_info = None
    /\ should_reject(AuthRes)

\* C16: is_valid is called only when a token is present; get_token_info is
\* called only after is_valid, and only when the manager reported the token
\* valid: never without a token, never for a token reported invalid.
C16_ResolveOnlyAfterValid ==
    AuthDone =>
        /\ "is_valid" \in Range(AuthCalls) => IsSome(aToken)
        /\ "get_token_info" \in Range(AuthCalls) =>
              /\ AuthRawValid
              /\ \E i \in 1..Len(AuthCalls), j \in 1..Len(AuthCalls) :
                    /\ i < j
                    /\ AuthCalls[i] = "is_valid"
                    /\ AuthCalls[j] = "get_token_info"
        /\ ~AuthRawValid => "get_token_info" \notin Range(AuthCalls)
        /\ Count(AuthCalls, "is_valid") <= 1
        /\ Count(AuthCalls, "get_token_info") <= 1

C16_Witness ==
    /\ AuthDone
    /\ IsSome(aToken) /\ Unwrap(aToken) \notin aManager.valid
    /\ Unwrap(aToken) \in aManager.resolvable
    /\ AuthCalls = <<"is_valid">>

\* The configured predicate accepts the owner of the token of the call.
AuthPredicateAccepts ==
    aConfig.validator = None \/ Owner(Unwrap(aToken)) \in Unwrap(aConfig.validator)

\* C17: the is_valid of the AuthResult is raw validity AND, on a path that
\* requires auth, identity resolved AND predicate accepted; on a path that
\* does not require auth a valid token stays valid though its identity does
\* not resolve.
C17_FinalValidity ==
    AuthDone =>
        AuthRes.is_valid =
            (AuthRawValid /\ (IF AuthPathNeedsAuth
                              THEN AuthTokenResolved /\ AuthPredicateAccepts
                              ELSE TRUE))

C17_Witness ==
    /\ AuthDone /\ ~AuthPathNeedsAuth /\ AuthResolutionFails
    /\ AuthRes.is_valid
    /\ AuthRes.token_info = None

\* C18: without a token process_auth returns is_valid = false, token = None
\* and token_info = None on every path and under every policy; for a token
\* the manager reports invalid it returns is_valid = false and
\* token_info = None.
C18_AbsentOrInvalidToken ==
    AuthDone =>
        /\ aToken = None =>
              (~AuthRes.is_valid /\ AuthRes.token = None /\ AuthRes.token_info = None)
        /\ (IsSome(aToken) /\ ~AuthRawValid) =>
              (~AuthRes.is_valid /\ AuthRes.token_info = None)

C18_Witness ==
    /\ AuthDone /\ aToken = None /\ ~AuthPathNeedsAuth
    /\ aConfig = PathAuthConfig_new
    /\ ~AuthRes.is_valid /\ AuthRes.token = None

ShouldRejectDone == rOp = "should_reject" /\ IsSome(rOut)

\* C19: should_reject() is need_auth AND (NOT is_valid OR token absent) on
\* every AuthResult, those process_auth never builds included.
C19_ShouldRejectFormula ==
    ShouldRejectDone =>
        Unwrap(rOut) = (rArg.need_auth /\ (~rArg.is_valid \/ rArg.token = None))

C19_Witness ==
    /\ ShouldRejectDone
    /\ rArg.need_auth /\ rArg.is_valid /\ rArg.token = None
    /\ rOut = Some(TRUE)

\* ------------------------------------------------------------------ properties: matcher rules

\* C21: match_path(p, "/**") is true for every path p, the empty path and
\* the paths without a leading '/' included.
C21_UniversalPatternMatchesAll ==
    (MatchDone /\ mPattern = Pat_all) => Unwrap(mResult) = TRUE

C21_Witness ==
    /\ MatchDone /\ mPattern = Pat_all
    /\ mPath # <<>> /\ mPath[1] # "/"
    /\ mResult = Some(TRUE)

\* The pattern has none of the wildcard forms.
PlainPattern(pattern) ==
    /\ ~EndsWith(pattern, StarStar)
    /\ ~StartsWith(pattern, <<"*">>)
    /\ ~EndsWith(pattern, SlashStar)

\* C22: match_path decides by the first rule that applies, in the order
\* universal, prefix, suffix, single segment, exact: a pattern that starts
\* with "*" and ends with "/**" is decided by the prefix rule, one that
\* starts with "*" and ends with "/*" by the suffix rule, and a pattern of no
\* wildcard form matches the identical path only.
C22_FirstApplicableRuleDecides ==
    MatchDone =>
        /\ (StartsWith(mPattern, <<"*">>) /\ EndsWith(mPattern, StarStar))
              => Unwrap(mResult)
                   = StartsWith(mPath, SubSeq(mPattern, 1, Len(mPattern) - 3))
        /\ (StartsWith(mPattern, <<"*">>) /\ EndsWith(mPattern, SlashStar))
              => Unwrap(mResult) = EndsWith(mPath, Tail(mPattern))
        /\ PlainPattern(mPattern) => Unwrap(mResult) = (mPath = mPattern)

C22_Witness ==
    /\ MatchDone
    /\ StartsWith(mPattern, <<"*">>) /\ EndsWith(mPattern, StarStar)
    /\ ~EndsWith(mPath, Tail(mPattern))
    /\ mResult = Some(TRUE)

\* ------------------------------------------------------------------ properties: policy

\* C23: under a PathAuthConfig with an empty include list no path requires
\* auth, whatever the exclude list holds, and process_auth rejects no
\* request, with or without a token.
C23_EmptyIncludeNeverRejects ==
    (AuthDone /\ aConfig.include = <<>>) =>
        /\ ~AuthRes.need_auth
        /\ ~should_reject(AuthRes)

C23_Witness ==
    /\ AuthDone /\ aConfig.include = <<>>
    /\ aConfig.exclude = <<Str_api_login>>
    /\ aToken = None
    /\ ~should_reject(AuthRes)

ValidateDone == rOp = "validate_login_id" /\ IsSome(rOut)

\* C24: validate_login_id(id) is true for every id when no validator is
\* configured, and otherwise is what the configured validator answers for
\* that id.
C24_ValidatorDecides ==
    ValidateDone =>
        /\ rConfig.validator = None => Unwrap(rOut) = TRUE
        /\ rConfig.validator # None => Unwrap(rOut) = (rId \in Unwrap(rConfig.validator))

C24_Witness ==
    /\ ValidateDone
    /\ rConfig.validator = None
    /\ rId = ""
    /\ rOut = Some(TRUE)

\* ------------------------------------------------------------------ properties: what the middleware publishes

\* The wrapped handler was invoked for the request.
HandlerInvoked(r) == "inner.call" \in Range(calls[r])

\* The path of the request requires auth under the layer's configuration.
RequiresAuth(r) ==
    /\ IsSome(path_config)
    /\ \E p \in Range(Unwrap(path_config).include) : match_path(req[r].path, p)
    /\ \A p \in Range(Unwrap(path_config).exclude) : ~match_path(req[r].path, p)

\* The manager reports the token of the request valid and resolves it.
TokenResolves(r) ==
    /\ IsSome(req[r].token_str)
    /\ Unwrap(req[r].token_str) \in req[r].manager.valid
    /\ Unwrap(req[r].token_str) \in req[r].manager.resolvable

\* C25: when the path-auth middleware invokes the wrapped handler for a path
\* that requires auth, the context it published for the request carries a
\* login id, the login id is the identity of the request's token, the
\* manager reported that token valid, and validate_login_id accepts the id.
C25_HandlerRunsOnlyAuthenticated ==
    \A r \in Reqs :
        (HandlerInvoked(r) /\ RequiresAuth(r)) =>
            /\ TokenResolves(r)
            /\ IsSome(ctx[r])
            /\ Unwrap(ctx[r]).login_id = Some(Owner(Unwrap(req[r].token_str)))
            /\ Unwrap(ctx[r]).token = req[r].token_str
            /\ \/ Unwrap(path_config).validator = None
               \/ Owner(Unwrap(req[r].token_str)) \in Unwrap(Unwrap(path_config).validator)

C25_Witness ==
    \E r \in Reqs :
        /\ pc[r] = "handler" /\ HandlerInvoked(r) /\ RequiresAuth(r)
        /\ Unwrap(ctx[r]).login_id = Some("alice")

\* The context carries an identity.
CarriesIdentity(c) == c.token # None \/ c.token_info # None \/ c.login_id # None

\* C26: in either mode the context published for a request carries an
\* identity only if the manager reported its token valid and resolved it;
\* the handler of a request whose token is absent, invalid or unresolvable
\* reads a context without identity while it runs.
C26_IdentityOnlyFromResolvedToken ==
    \A r \in Reqs :
        /\ (IsSome(ctx[r]) /\ CarriesIdentity(Unwrap(ctx[r]))) => TokenResolves(r)
        /\ (pc[r] = "handler" /\ ~TokenResolves(r)) =>
              \/ current(slot, worker[r]) = None
              \/ ~CarriesIdentity(Unwrap(current(slot, worker[r])))

\* C28: in axum and actix-web a token is in the request extensions only if
\* the manager reported it valid, with a path configuration as without.
C28_ExtensionsHoldValidTokensOnly ==
    \A r \in Reqs :
        fw \in {"axum", "actix"} =>
            \A t \in Tokens : t \in ext[r] => t \in req[r].manager.valid

\* C29: for the same request and the same answers of the manager, the
\* context the path-auth mode publishes for a request it does not reject is
\* the context the mode without path configuration publishes.
C29_ModesPublishSameContext ==
    \A r \in Reqs :
        (IsSome(path_config) /\ HandlerInvoked(r)) =>
            ctx[r] = Some(PlainContext(req[r].token_str, req[r].manager))

C29_Witness ==
    \E r \in Reqs :
        /\ IsSome(path_config) /\ HandlerInvoked(r)
        /\ ~RequiresAuth(r)
        /\ IsSome(req[r].token_str)
        /\ Unwrap(req[r].token_str) \in req[r].manager.valid
        /\ Unwrap(req[r].token_str) \notin req[r].manager.resolvable
        /\ ctx[r] = Some(SaTokenContext_new)

\* C30: without a path configuration the middleware rejects nothing: for
\* every request that reached it, token absent, invalid, unresolvable or
\* valid, the wrapped handler is invoked exactly once and the response, when
\* there is one, is the handler's.
C30_PlainModeNeverRejects ==
    \A r \in Reqs :
        (path_config = None /\ pc[r] # "new") =>
            /\ pc[r] # "rejected"
            /\ Count(calls[r], "inner.call") = 1
            /\ IsSome(response[r]) => Unwrap(response[r]).kind \in {"ok", "err"}

C30_Witness ==
    \E r \in Reqs :
        /\ path_config = None /\ pc[r] = "done"
        /\ IsSome(req[r].token_str)
        /\ Unwrap(req[r].token_str) \notin req[r].manager.valid
        /\ calls[r] = <<"is_valid", "set_current", "inner.call", "clear">>

\* ------------------------------------------------------------------ properties: AuthResult invariants

\* C27: on every AuthResult process_auth returns, is_valid implies a token;
\* token_info implies a token the manager reported valid; need_auth with
\* is_valid implies token_info; so should_reject() is need_auth AND NOT
\* is_valid, its test of the absent token changing nothing.
C27_AuthResultInvariants ==
    AuthDone =>
        /\ AuthRes.is_valid => IsSome(AuthRes.token)
        /\ IsSome(AuthRes.token_info) =>
              (IsSome(AuthRes.token) /\ Unwrap(AuthRes.token) \in aManager.valid)
        /\ (AuthRes.need_auth /\ AuthRes.is_valid) => IsSome(AuthRes.token_info)
        /\ should_reject(AuthRes) = (AuthRes.need_auth /\ ~AuthRes.is_valid)

C27_Witness ==
    /\ AuthDone
    /\ AuthRes.need_auth /\ AuthRes.is_valid
    /\ IsSome(AuthRes.token_info) /\ IsSome(AuthRes.token)
    /\ ~should_reject(AuthRes)

\* ------------------------------------------------------------------ properties: login check

\* The login check answered the request unauthorized, with the JSON body.
CheckLoginRejected(r) ==
    /\ pc[r] = "rejected"
    /\ response[r] = Some(RejectResponse("actix"))
    /\ Unwrap(response[r]).status = StatusUnauthorized

\* C31, in states: once SaCheckLoginMiddleware has acted on a request, the
\* wrapped handler was invoked if and only if a token was extracted, the
\* manager reported it valid and its token info resolved; otherwise the
\* request was answered 401, set_current was never called for it and it
\* published no context.
C31_CheckLoginState(r) ==
    pc[r] # "new" =>
        /\ HandlerInvoked(r) <=> TokenResolves(r)
        /\ ~TokenResolves(r) =>
              /\ CheckLoginRejected(r)
              /\ Count(calls[r], "set_current") = 0
              /\ ctx[r] = None

\* C31, in steps: the step that answers a request 401 leaves the ambient
\* slot of every worker as it was.
C31_CheckLoginStep(r) ==
    (pc[r] = "new" /\ pc'[r] = "rejected") => slot' = slot

\* C31: SaCheckLoginMiddleware (actix-web) invokes the wrapped handler if and
\* only if a token was extracted, the validator reports it valid and its
\* token info resolves; in every other case it returns 401 and never sets
\* the ambient context.
C31_CheckLoginGuardsHandler ==
    /\ [](\A r \in Reqs : C31_CheckLoginState(r))
    /\ [][\A r \in Reqs : C31_CheckLoginStep(r)]_vars

\* One request was forwarded and has returned; the other carried a token the
\* manager reported valid whose token info did not resolve, and was answered
\* 401 while the first one's handler could have published.
C31_Witness ==
    \E r \in Reqs, q \in Reqs :
        /\ r # q
        /\ pc[r] = "done" /\ TokenResolves(r)
        /\ calls[r] = <<"is_valid", "get_token_info", "set_current",
                        "inner.call", "clear">>
        /\ pc[q] = "rejected"
        /\ IsSome(req[q].token_str)
        /\ Unwrap(req[q].token_str) \in req[q].manager.valid
        /\ Unwrap(req[q].token_str) \notin req[q].manager.resolvable
        /\ calls[q] = <<"is_valid", "get_token_info">>

====
